---- MODULE Spec2Model ----
(***************************************************************************)
(* A model of the hybrid retrieval core of the repository:                 *)
(*   - Neo4jConnection (src/neo4j_connect.py): the dual-transport graph    *)
(*     connector, its initialization and its query operations;             *)
(*   - HybridRetriever (src/rag_features.py): routing and retrieval;       *)
(*   - GraphRAG.build_graph (src/neo4j_connect.py): the graph builder.     *)
(* Python's None is the string "None"; a Python str whose characters       *)
(* matter (queries, entity names) is a sequence of one-character strings.  *)
(***************************************************************************)
EXTENDS Integers, Sequences, FiniteSets, TLC

VARIABLES
    \* ---- Neo4jConnection fields ----
    driver,          \* self.driver: "None" or "Driver"
    use_http_api,    \* self.use_http_api
    http_base_url,   \* self.http_base_url: "None" or "Url"
    \* ---- Neo4jConnection history ----
    cpc,             \* "new" before __init__ has run, "ready" after
    connLog,         \* what _connect met: [bolt, http] outcomes
    boltAttempts,    \* number of times the Bolt transport was set up
    httpAttempts,    \* number of times the HTTP probe ran
    closed,          \* close() has been called on a live driver
    lastCall,        \* the last connector operation: [op, via, out, result, value, raised]
    contacts,        \* round trips made by direct connector operations
    \* ---- HybridRetriever ----
    hpc,             \* "new", "ready", or "failed" (the constructor raised)
    use_neo4j,       \* self.use_neo4j
    graph_rag,       \* self.graph_rag: "None" or "GraphRAG"
    lastRetrieve,    \* the last route_query / retrieve / chat turn
    \* ---- GraphRAG and build_graph ----
    llm,             \* self.llm: "None" or "LLM"
    bpc,             \* position in build_graph: idle, docs, nodes, rels, done
    buildRet,        \* the return value of the last invocation
    buildRaised,     \* the last invocation raised
    extractCalls,    \* calls of the extraction service in this invocation
    doc,             \* index of the graph document being inserted
    nNodes,          \* nodes of this document processed so far
    nRels,           \* relationships of this document processed so far
    entity_id_map,   \* lower-cased entity name -> node id
    total_entities,
    total_relations,
    \* ---- what this invocation did ----
    lastStep,        \* the last node or relationship item processed
    buildOk,         \* every store call of this invocation returned a row
    \* ---- the graph store ----
    graphNodes,      \* nodes in the store: [id, name, doc]
    graphRelCount,   \* number of relationships in the store
    nextId,          \* the id the store gives the next node
    \* ---- repeated invocations on a kept input ----
    graph_documents, \* the extraction result of the kept input (<<>> when
                     \* the result is read item by item)
    calls,           \* number of build_graph invocations begun
    prev             \* the previous invocation: [ret, lo, hi, looped]

connVars == <<driver, use_http_api, http_base_url, cpc, connLog,
              boltAttempts, httpAttempts, closed, lastCall, contacts>>

hrVars == <<hpc, use_neo4j, graph_rag, lastRetrieve>>

batchVars == <<graph_documents, calls, prev>>

buildVars ==
    <<llm, bpc, buildRet, buildRaised, extractCalls, doc, nNodes, nRels,
      entity_id_map, total_entities, total_relations, lastStep, buildOk,
      graphNodes, graphRelCount, nextId, batchVars>>

vars == <<connVars, hrVars, buildVars>>

----------------------------------------------------------------------------
(* Bounds *)

\* operations are issued while fewer than MaxCalls round trips were made
MaxCalls == 3

\* a query is the concatenation of at most MaxFrags fragments
MaxFrags == 2

\* the vector store returns at most MaxVecChunks chunks
MaxVecChunks == 2

\* the extraction service returns at most MaxDocs graph documents, each with
\* at most MaxNodes nodes and MaxRels relationships
MaxDocs == 2

MaxNodes == 2

MaxRels == 1

\* a kept input yields at most MaxBatchDocs graph documents
MaxBatchDocs == 2

\* build_graph is called at most MaxBuilds times on a kept input
MaxBuilds == 2

----------------------------------------------------------------------------
(* Neo4jConnection._connect *)

\* What the Bolt attempt of _connect can meet: the import fails, the driver
\* constructor raises, verify_connectivity raises, or all three succeed.
BoltConnectOutcomes == {"ok", "import_error", "driver_error", "verify_error"}

\* What the HTTP probe of _connect can meet: a response with a status, or an
\* exception (connection error, timeout after 30 s).
HttpStatuses == {200, 202, 204, 500}

HttpProbeOutcomes ==
    [kind : {"response"}, status : HttpStatuses]
        \cup [kind : {"exception", "timeout"}, status : {0}]

NoProbe == [kind |-> "none", status |-> 0]

\* self.driver when the try block of the Bolt attempt is left: the assignment
\* of line 26 has happened iff the constructor returned.
DriverAfterTry(b) == IF b \in {"ok", "verify_error"} THEN "Driver" ELSE "None"

DriverAfterExceptKept(d) == d

\* self.driver after the except block of the Bolt attempt (line 36).
DriverAfterExcept(d) == "None"

UseHttpAfterProbeAnyResponse(h) == h.kind = "response"

\* self.use_http_api after the HTTP probe (lines 54-55).
UseHttpAfterProbe(h) == h.kind = "response" /\ h.status \in {200, 202}

\* self.http_base_url after the HTTP probe: set at line 42, reset at 59 / 62.
BaseUrlAfterProbe(h) ==
    IF h.kind = "response" /\ h.status \in {200, 202} THEN "Url" ELSE "None"

\* The fields _connect leaves, and the attempts it made, when the Bolt attempt
\* meets b and the HTTP probe (if run) meets h.
ConnectResult(b, h) ==
    IF b = "ok"
    THEN [driver |-> DriverAfterTry(b), use_http_api |-> FALSE,
          http_base_url |-> "None", bolt |-> 1, http |-> 0,
          log |-> [bolt |-> b, http |-> NoProbe]]
    ELSE [driver |-> DriverAfterExcept(DriverAfterTry(b)),
          use_http_api |-> UseHttpAfterProbe(h),
          http_base_url |-> BaseUrlAfterProbe(h), bolt |-> 1, http |-> 1,
          log |-> [bolt |-> b, http |-> h]]

\* Neo4jConnection.is_connected
is_connected(d, u) == d # "None" \/ u

\* The transport execute_query dispatches to (the branch conditions of lines
\* 74 and 84): this is the connector's transport state.
TransportState(d, u, url) ==
    IF d # "None" THEN "Primary"
    ELSE IF u /\ url # "None" THEN "HttpFallback"
    ELSE "Unavailable"

State == TransportState(driver, use_http_api, http_base_url)

----------------------------------------------------------------------------
(* Neo4jConnection.execute_query *)

\* What a Bolt round trip can meet.
BoltOutcomes == {"rows", "empty", "exception"}

\* What an HTTP round trip can meet: an exception or timeout of the POST, or a
\* response with a status and a body. Bodies: "rows" and "empty" carry
\* data.values (non-empty / empty), "nodata" lacks "data", "novalues" lacks
\* data.values, "badjson" makes resp.json() raise.
HttpBodies == {"rows", "empty", "nodata", "novalues", "badjson"}

HttpOutcomes ==
    [kind : {"response"}, status : HttpStatuses, body : HttpBodies]
        \cup [kind : {"exception", "timeout"}, status : {0}, body : {"none"}]

\* The Bolt branch (lines 76-82): rows is what the store yields on success.
ExecuteBoltUncaught(bo, rows) ==
    IF bo = "exception" THEN [ret |-> <<>>, raised |-> TRUE]
    ELSE [ret |-> IF bo = "rows" THEN rows ELSE <<>>, raised |-> FALSE]

ExecuteBolt(bo, rows) ==
    IF bo = "exception" THEN [ret |-> <<>>, raised |-> FALSE]
    ELSE [ret |-> IF bo = "rows" THEN rows ELSE <<>>, raised |-> FALSE]

\* The HTTP branch (lines 86-116).
ExecuteHttp(ho, rows) ==
    IF ho.kind # "response" THEN [ret |-> <<>>, raised |-> FALSE]
    ELSE IF ho.status \in {200, 202}
         THEN IF ho.body = "badjson" THEN [ret |-> <<>>, raised |-> FALSE]
              ELSE IF ho.body \in {"rows", "empty"}
                   THEN [ret |-> IF ho.body = "rows" THEN rows ELSE <<>>,
                         raised |-> FALSE]
              ELSE [ret |-> <<>>, raised |-> FALSE]
    ELSE [ret |-> <<>>, raised |-> FALSE]

\* The round trip succeeded and the store ran the statement.
BoltOk(bo) == bo \in {"rows", "empty"}

HttpOk(ho) ==
    ho.kind = "response" /\ ho.status \in {200, 202}
        /\ ho.body \in {"rows", "empty"}

ExecuteQuerySwitching(d, u, url, bo, ho, rows) ==
    IF d # "None"
    THEN [ExecuteBolt(bo, rows) EXCEPT !.raised = FALSE] @@
         [via |-> "bolt", out |-> bo,
          driver |-> IF bo = "exception" THEN "None" ELSE d,
          use_http_api |-> IF bo = "exception" THEN TRUE ELSE u,
          http_base_url |-> IF bo = "exception" THEN "Url" ELSE url]
    ELSE IF u /\ url # "None"
    THEN ExecuteHttp(ho, rows) @@
         [via |-> "http", out |-> ho,
          driver |-> d, use_http_api |-> u, http_base_url |-> url]
    ELSE [ret |-> <<>>, raised |-> FALSE, via |-> "none", out |-> "none",
          driver |-> d, use_http_api |-> u, http_base_url |-> url]

\* execute_query on a connector with fields (d, u, url): the result, whether
\* it raised, the transport used, and the fields afterwards (it assigns none).
ExecuteQuery(d, u, url, bo, ho, rows) ==
    IF d # "None"
    THEN ExecuteBolt(bo, rows) @@
         [via |-> "bolt", out |-> bo,
          driver |-> d, use_http_api |-> u, http_base_url |-> url]
    ELSE IF u /\ url # "None"
    THEN ExecuteHttp(ho, rows) @@
         [via |-> "http", out |-> ho,
          driver |-> d, use_http_api |-> u, http_base_url |-> url]
    ELSE [ret |-> <<>>, raised |-> FALSE, via |-> "none", out |-> "none",
          driver |-> d, use_http_api |-> u, http_base_url |-> url]

\* A closed driver raises on session(): the Bolt outcomes left after close().
BoltOutcomesNow == IF closed THEN {"exception"} ELSE BoltOutcomes

\* The records a successful statement of each operation yields.
RowsOf(op) ==
    CASE op = "execute_query" -> <<"record">>
      [] op = "create_node" -> <<[node_id |-> 0]>>
      [] op = "create_relationship" -> <<[rel_type |-> "REL"]>>
      [] op = "search_nodes" -> <<[node_id |-> 0]>>
      [] op = "get_node_relationships" -> <<[relationships |-> "rels"]>>

\* Python's None where a node id is expected (store ids are not negative)
NoneId == -1

\* create_node's return value from execute_query's result (line 124).
CreateNodeReturn(result) ==
    IF result # <<>> THEN result[1].node_id ELSE NoneId

ConnectorOps ==
    {"execute_query", "create_node", "create_relationship", "search_nodes",
     "get_node_relationships"}

NoCall == [op |-> "none", via |-> "none", out |-> "none", result |-> <<>>,
           value |-> <<>>, raised |-> FALSE]

\* The outcomes to draw for an operation: only the active transport's matter.
BoltChoices == IF State = "Primary" THEN BoltOutcomesNow ELSE {"empty"}

HttpChoices ==
    IF State = "HttpFallback" THEN HttpOutcomes
    ELSE {[kind |-> "exception", status |-> 0, body |-> "none"]}

----------------------------------------------------------------------------
(* Strings: str.lower and re.search on literal patterns *)

UpperChars ==
    <<"A", "B", "C", "D", "E", "F", "G", "H", "I", "J", "K", "L", "M", "N",
      "O", "P", "Q", "R", "S", "T", "U", "V", "W", "X", "Y", "Z">>

LowerChars ==
    <<"a", "b", "c", "d", "e", "f", "g", "h", "i", "j", "k", "l", "m", "n",
      "o", "p", "q", "r", "s", "t", "u", "v", "w", "x", "y", "z">>

DigitChars == <<"0", "1", "2", "3", "4", "5", "6", "7", "8", "9", "_">>

Range(f) == {f[i] : i \in DOMAIN f}

LowerChar(c) ==
    IF c \in Range(UpperChars)
    THEN LowerChars[CHOOSE i \in DOMAIN UpperChars : UpperChars[i] = c]
    ELSE c

\* str.lower
lower(s) == [i \in 1..Len(s) |-> LowerChar(s[i])]

\* re.search(p, s) for a pattern p without metacharacters: p occurs in s.
Search(p, s) ==
    \E i \in 1..(Len(s) - Len(p) + 1) : SubSeq(s, i, i + Len(p) - 1) = p

\* \w of the regular expressions
IsWordChar(c) ==
    c \in Range(LowerChars) \cup Range(UpperChars) \cup Range(DigitChars)

----------------------------------------------------------------------------
(* HybridRetriever.route_query *)

QdrantPatterns ==
    << <<"w", "h", "a", "t", " ", "i", "s">>,
       <<"d", "e", "f", "i", "n", "e">>,
       <<"p", "r", "i", "c", "e">>,
       <<"p", "r", "i", "x">>,
       <<"c", "o", "s", "t">>,
       <<"t", "a", "r", "i", "f">>,
       <<"s", "p", "e", "c">>,
       <<"f", "e", "a", "t", "u", "r", "e">>,
       <<"c", "o", "m", "b", "i", "e", "n">>,
       <<"c", "'", "e", "s", "t", " ", "q", "u", "o", "i">> >>

Neo4jPatterns ==
    << <<"r", "e", "l", "a", "t", "e", "d">>,
       <<"h", "i", "s", "t", "o", "r", "y">>,
       <<"e", "v", "o", "l", "u", "t", "i", "o", "n">>,
       <<"c", "o", "n", "n", "e", "c", "t", "i", "o", "n">>,
       <<"l", "i", "n", "k">>,
       <<"h", "i", "s", "t", "o", "r", "i", "q", "u", "e">>,
       <<"l", "i", "e", "n">>,
       <<"i", "m", "p", "a", "c", "t">> >>

\* self.patterns: a dict, iterated in insertion order.
patterns ==
    << [method |-> "qdrant", patterns |-> QdrantPatterns],
       [method |-> "neo4j", patterns |-> Neo4jPatterns] >>

\* The entries of self.patterns one of whose patterns is found in ql.
MatchingEntries(ql) ==
    {i \in DOMAIN patterns :
        \E j \in DOMAIN patterns[i].patterns :
            Search(patterns[i].patterns[j], ql)}

SetMin(S) == CHOOSE x \in S : \A y \in S : x <= y

SetMax(S) == CHOOSE x \in S : \A y \in S : x >= y

route_queryLastEntryWins(query) ==
    LET hits == MatchingEntries(lower(query)) IN
    IF hits = {} THEN "hybrid" ELSE patterns[SetMax(hits)].method

\* route_query: the method of the first entry with a matching pattern.
route_query(query) ==
    LET hits == MatchingEntries(lower(query)) IN
    IF hits = {} THEN "hybrid" ELSE patterns[SetMin(hits)].method

----------------------------------------------------------------------------
(* GraphRAG._extract_keywords and GraphRAG.query_graph *)

stop_words ==
    { <<"t", "h", "e">>, <<"a">>, <<"a", "n">>, <<"i", "s">>,
      <<"a", "r", "e">>, <<"w", "a", "s">>, <<"w", "h", "o">>,
      <<"w", "h", "a", "t">>, <<"w", "h", "e", "r", "e">>,
      <<"w", "h", "e", "n">>, <<"w", "h", "y">>, <<"h", "o", "w">>,
      <<"w", "h", "i", "c", "h">>, <<"t", "h", "a", "t">>,
      <<"t", "h", "i", "s">>, <<"i", "n">>, <<"o", "n">>, <<"a", "t">>,
      <<"t", "o">>, <<"f", "o", "r">>, <<"o", "f">>, <<"a", "n", "d">>,
      <<"o", "r">>, <<"w", "i", "t", "h">>, <<"f", "r", "o", "m">>,
      <<"b", "y">> }

\* re.findall(r'\b\w+\b', s): the maximal runs of word characters of s.
RECURSIVE FindWords(_, _, _, _)
FindWords(s, i, cur, acc) ==
    IF i > Len(s)
    THEN IF cur = <<>> THEN acc ELSE Append(acc, cur)
    ELSE IF IsWordChar(s[i])
         THEN FindWords(s, i + 1, Append(cur, s[i]), acc)
         ELSE FindWords(s, i + 1, <<>>,
                        IF cur = <<>> THEN acc ELSE Append(acc, cur))

\* the words kept as keywords, in order, without repetition (lines 268-271)
RECURSIVE UniqueKeywords(_, _, _)
UniqueKeywords(words, i, acc) ==
    IF i > Len(words) THEN acc
    ELSE LET w == words[i] IN
         UniqueKeywords(words, i + 1,
            IF w \notin stop_words /\ Len(w) > 2 /\ w \notin Range(acc)
            THEN Append(acc, w) ELSE acc)

Prefix(s, n) == SubSeq(s, 1, IF Len(s) < n THEN Len(s) ELSE n)

_extract_keywords(text) ==
    Prefix(UniqueKeywords(FindWords(lower(text), 1, <<>>, <<>>), 1, <<>>), 10)

Fragments ==
    { <<"W", "h", "a", "t", " ", "i", "s">>,
      <<"P", "R", "I", "C", "E">>,
      <<"L", "i", "n", "k">>,
      <<"s", "o", "l", "a", "r", " ", "p", "a", "n", "e", "l">>,
      <<" ">> }

RECURSIVE QueriesOf(_)
QueriesOf(n) ==
    IF n = 0 THEN {<<>>}
    ELSE LET Q == QueriesOf(n - 1) IN
         Q \cup {q \o f : q \in Q, f \in Fragments}

Queries == QueriesOf(MaxFrags)

\* What the store answers to one statement of query_graph.
ReplyKinds == {"rows", "empty", "exception"}

\* The node ids a search can return.
NodeIds == {0, 1}

\* The store's answers for one keyword: to the search (no node, a failure, or
\* one node) and, when a node came back, to the relationship query for it.
GraphReplies ==
    [kind : {"rows"}, node : NodeIds, rels : ReplyKinds]
        \cup [kind : {"empty", "exception"}, node : {0}, rels : {"empty"}]

AsBolt(kind) == kind

AsHttp(kind) ==
    IF kind = "exception"
    THEN [kind |-> "exception", status |-> 0, body |-> "none"]
    ELSE [kind |-> "response", status |-> 200, body |-> kind]

\* execute_query of a statement the store answers with `kind`
Ask(d, u, url, kind, rows) ==
    ExecuteQuery(d, u, url, AsBolt(kind), AsHttp(kind), rows)

\* The loop of query_graph (lines 238-259) from keyword i on: gr[i] is the
\* store's answers for keyword i. acc = [seen, ctx, calls].
RECURSIVE QueryGraphLoop(_, _, _, _, _, _, _)
QueryGraphLoop(d, u, url, kws, i, gr, acc) ==
    IF i > Len(kws) THEN acc
    ELSE
      LET nodes == Ask(d, u, url, gr[i].kind,
                       <<[node_id |-> gr[i].node]>>).ret
          searched == [acc EXCEPT !.calls = @ + 1]
      IN
      IF nodes = <<>> \/ nodes[1].node_id \in acc.seen
      THEN QueryGraphLoop(d, u, url, kws, i + 1, gr, searched)
      ELSE
        LET n == nodes[1].node_id
            rels == Ask(d, u, url, gr[i].rels,
                        <<[relationships |-> <<"rel">>]>>).ret
            lines == <<[line |-> "node", node |-> n]>>
                       \o [k \in 1..Len(Prefix(rels, 5)) |->
                              [line |-> "rel", node |-> n]]
        IN QueryGraphLoop(d, u, url, kws, i + 1, gr,
              [seen |-> acc.seen \cup {n},
               ctx |-> acc.ctx \o lines,
               calls |-> acc.calls + 2])

\* _extract_keywords of every query, computed once
keywordTable == [q \in Queries |-> _extract_keywords(q)]

\* query_graph: the context lines returned (<<>> is the empty string) and the
\* number of statements sent to the store.
query_graph(d, u, url, question, gr) ==
    IF ~is_connected(d, u) THEN [text |-> <<>>, calls |-> 0]
    ELSE
      LET r == QueryGraphLoop(d, u, url, keywordTable[question], 1,
                              gr, [seen |-> {}, ctx |-> <<>>, calls |-> 0])
      IN [text |-> Prefix(r.ctx, 20), calls |-> r.calls]

----------------------------------------------------------------------------
(* HybridRetriever.retrieve *)

\* The ordered answers of the vector store: chunks without repetition.
VecResults ==
    {s \in UNION {[1..n -> 1..MaxVecChunks] : n \in 0..MaxVecChunks} :
        \A i, j \in DOMAIN s : i # j => s[i] # s[j]}

VecChunk(k) == [origin |-> "vector", id |-> k, content |-> <<>>]

\* What self.retriever.invoke can meet: an ordered list of documents, or an
\* exception of the vector store client (the store is unreachable).
VectorOutcomes ==
    {[kind |-> "docs", docs |-> [i \in DOMAIN s |-> VecChunk(s[i])]] :
        s \in VecResults}
        \cup {[kind |-> "exception", docs |-> <<>>]}

\* route_query of every query, computed once
routeTable == [q \in Queries |-> route_query(q)]

\* the condition of line 62
VectorGateAlways(route) == TRUE

VectorGate(route) == route \in {"qdrant", "hybrid"}

\* the condition of line 66
GraphGate(route, use, g, d, u) ==
    route \in {"neo4j", "hybrid"} /\ use /\ g # "None" /\ is_connected(d, u)

\* the Document of line 72
GraphChunk(text) == [origin |-> "graph", id |-> 0, content |-> text]

MergeChunksGraphFirst(vecChunks, graphChunks) == graphChunks \o vecChunks

\* chunks after the extend of line 64 and the append of line 72
MergeChunks(vecChunks, graphChunks) == vecChunks \o graphChunks

\* retrieve on a retriever with fields (use, g) and connector (d, u, url):
\* vo is what the vector store does, gr what the graph store answers.
Retrieve(use, g, d, u, url, query, vo, gr) ==
    LET route == routeTable[query]
        vec == VectorGate(route)
    IN
    IF vec /\ vo.kind = "exception"
    THEN [raised |-> TRUE, ret |-> <<>>, route |-> route,
          vectorCalls |-> 1, graphCalls |-> 0]
    ELSE
      LET vecChunks == IF vec THEN vo.docs ELSE <<>>
          gate == GraphGate(route, use, g, d, u)
          gc == IF gate THEN query_graph(d, u, url, query, gr)
                ELSE [text |-> <<>>, calls |-> 0]
          graphChunks == IF gate /\ gc.text # <<>>
                         THEN <<GraphChunk(gc.text)>> ELSE <<>>
      IN [raised |-> FALSE,
          ret |-> <<MergeChunks(vecChunks, graphChunks), route>>,
          route |-> route,
          vectorCalls |-> IF vec THEN 1 ELSE 0,
          graphCalls |-> gc.calls]

\* no call of the vector store
NoVector == [kind |-> "none", docs |-> <<>>]

\* The unpacking `chunks, route, timings = rag.retrieve(prompt)` of the chat
\* handler (interface.py line 156).
Unpack3(ret) == IF Len(ret) = 3 THEN "ok" ELSE "ValueError"

NoRetrieve ==
    [op |-> "none", query |-> <<>>, route |-> "none", vo |-> NoVector,
     raised |-> FALSE, ret |-> <<>>, vectorCalls |-> 0, graphCalls |-> 0,
     chat |-> "none"]

\* The outcomes to draw for the vector store: none when it is not called.
VectorChoices(query) ==
    IF VectorGate(routeTable[query]) THEN VectorOutcomes ELSE {NoVector}

\* The answers to draw for the graph store: one per keyword of the query when
\* query_graph is reached, none otherwise.
ReplyChoices(query) ==
    IF GraphGate(routeTable[query], use_neo4j, graph_rag, driver, use_http_api)
    THEN [1..Len(keywordTable[query]) -> GraphReplies]
    ELSE {<<>>}

\* what a call of retrieve by `caller` leaves in lastRetrieve
RetrieveRecord(caller, q, vo, r) ==
    [op |-> caller, query |-> q, route |-> r.route, vo |-> vo,
     raised |-> r.raised, ret |-> r.ret, vectorCalls |-> r.vectorCalls,
     graphCalls |-> r.graphCalls,
     chat |-> IF caller # "chat" THEN "none"
              ELSE IF r.raised THEN "raised"
              ELSE IF Unpack3(r.ret) = "ok" THEN "answered"
              ELSE "ValueError"]

----------------------------------------------------------------------------
(* GraphRAG.build_graph *)

\* The entity names the extraction service can return.
Names == { <<"A", "b">>, <<"a", "b">>, <<"c">> }

\* The relationship types the extraction service can return.
RelTypes == { <<"m", "a", "d", "e", " ", "b", "y">> }

UpperChar(c) ==
    IF c \in Range(LowerChars)
    THEN UpperChars[CHOOSE i \in DOMAIN LowerChars : LowerChars[i] = c]
    ELSE c

\* rel.type.replace(" ", "_").upper() (line 216)
NormaliseRelType(t) ==
    [i \in 1..Len(t) |-> UpperChar(IF t[i] = " " THEN "_" ELSE t[i])]

EntityKeyRaw(entity_name) == entity_name

\* the key of an entity in entity_id_map (lines 200 and 209)
EntityKey(entity_name) == lower(entity_name)

IsNotNoneWhatever(node_id) == TRUE

\* `node_id is not None` (line 208)
IsNotNone(node_id) == node_id # NoneId

\* the empty dict of line 192
EmptyMap == [k \in {} |-> 0]

IndexKeptAtStart(old) == old

\* entity_id_map when the loop starts (line 192): a fresh dict, whatever an
\* earlier invocation left in its own
EntityIndexAtStart(old) == EmptyMap

RelKeyRaw(name) == name

\* the endpoint names of a relationship as looked up in entity_id_map
\* (lines 214-215)
RelKey(name) == lower(name)

\* `from_name in entity_id_map and to_name in entity_id_map` (line 218)
BothResolved(from_name, to_name, m) ==
    from_name \in DOMAIN m /\ to_name \in DOMAIN m

RelationsAfterStored(n, result) == n + (IF result # <<>> THEN 1 ELSE 0)

\* total_relations after a create_relationship call (line 225): the result
\* of the call is not looked at
RelationsAfterCall(n, result) == n + 1

is_availableWhatever(d, u) == TRUE

\* GraphRAG.is_available (lines 168-169)
is_available(d, u) == is_connected(d, u)

\* the return value before the loop has run, and of the early returns
ZeroCounts == [entities |-> 0, relations |-> 0]

NoReturn == [entities |-> -1, relations |-> -1]

\* there was no earlier invocation
NoPrev == [ret |-> NoReturn, lo |-> 0, hi |-> 0, looped |-> FALSE]

\* no item has been processed yet
NoStep ==
    [kind |-> "none", name |-> <<>>, target |-> <<>>, did |-> "none",
     from_id |-> NoneId, to_id |-> NoneId, rel_type |-> <<>>]

----------------------------------------------------------------------------
(* Initial state: nothing is constructed yet *)

ConnInit ==
    /\ driver = "None"
    /\ use_http_api = FALSE
    /\ http_base_url = "None"
    /\ cpc = "new"
    /\ connLog = [bolt |-> "none", http |-> NoProbe]
    /\ boltAttempts = 0
    /\ httpAttempts = 0
    /\ closed = FALSE
    /\ lastCall = NoCall
    /\ contacts = 0

HRInit ==
    /\ hpc = "new"
    /\ use_neo4j = FALSE
    /\ graph_rag = "None"
    /\ lastRetrieve = NoRetrieve

\* no build_graph call has been made
BuildIdle ==
    /\ bpc = "idle"
    /\ buildRet = NoReturn
    /\ buildRaised = FALSE
    /\ extractCalls = 0
    /\ doc = 0
    /\ nNodes = 0
    /\ nRels = 0
    /\ entity_id_map = EmptyMap
    /\ total_entities = 0
    /\ total_relations = 0
    /\ lastStep = NoStep
    /\ buildOk = TRUE
    /\ graphNodes = {}
    /\ graphRelCount = 0
    /\ nextId = 0
    /\ calls = 0
    /\ prev = NoPrev

BuildInit ==
    /\ llm = "None"
    /\ graph_documents = <<>>
    /\ BuildIdle

Init == ConnInit /\ HRInit /\ BuildInit

----------------------------------------------------------------------------
(* Actions of the connector *)

\* Neo4jConnection.__init__: the fields are reset and _connect runs.
Connect ==
    /\ cpc = "new"
    /\ \E b \in BoltConnectOutcomes, h \in HttpProbeOutcomes :
        LET r == ConnectResult(b, h) IN
        /\ driver' = r.driver
        /\ use_http_api' = r.use_http_api
        /\ http_base_url' = r.http_base_url
        /\ connLog' = r.log
        /\ boltAttempts' = boltAttempts + r.bolt
        /\ httpAttempts' = httpAttempts + r.http
    /\ cpc' = "ready"
    /\ UNCHANGED <<closed, lastCall, contacts>>
    /\ UNCHANGED <<hrVars, buildVars>>

\* One of execute_query, create_node, create_relationship, search_nodes,
\* get_node_relationships: each is a single execute_query.
Operation ==
    /\ cpc = "ready"
    /\ contacts < MaxCalls
    /\ \E op \in ConnectorOps, bo \in BoltChoices, ho \in HttpChoices :
        LET r == ExecuteQuery(driver, use_http_api, http_base_url,
                              bo, ho, RowsOf(op)) IN
        /\ driver' = r.driver
        /\ use_http_api' = r.use_http_api
        /\ http_base_url' = r.http_base_url
        /\ lastCall' = [op |-> op, via |-> r.via, out |-> r.out,
                        result |-> r.ret,
                        value |-> IF op = "create_node"
                                  THEN <<CreateNodeReturn(r.ret)>> ELSE r.ret,
                        raised |-> r.raised]
        /\ contacts' = contacts + (IF r.via = "none" THEN 0 ELSE 1)
    /\ UNCHANGED <<cpc, connLog, boltAttempts, httpAttempts, closed>>
    /\ UNCHANGED <<hrVars, buildVars>>

\* Neo4jConnection.close
Close ==
    /\ cpc = "ready"
    /\ ~closed
    /\ driver # "None"
    /\ closed' = TRUE
    /\ UNCHANGED <<driver, use_http_api, http_base_url, cpc, connLog,
                   boltAttempts, httpAttempts, lastCall, contacts>>
    /\ UNCHANGED <<hrVars, buildVars>>

Next == Connect \/ Operation \/ Close

\* The connector alone: constructed once, then operated.
Spec == Init /\ [][Next]_vars

----------------------------------------------------------------------------
(* Actions of the retriever *)

\* HybridRetriever.__init__: raises on an invalid API key; otherwise builds
\* the vector retriever and, if use_neo4j, a GraphRAG with its connector.
NewHybridRetriever ==
    /\ hpc = "new"
    /\ \E use \in BOOLEAN, keyOk \in BOOLEAN :
        /\ use_neo4j' = use
        /\ IF ~keyOk
           THEN /\ hpc' = "failed"
                /\ graph_rag' = "None"
                /\ llm' = llm
                /\ UNCHANGED <<driver, use_http_api, http_base_url, cpc,
                               connLog, boltAttempts, httpAttempts>>
           ELSE /\ hpc' = "ready"
                /\ graph_rag' = IF use THEN "GraphRAG" ELSE "None"
                /\ llm' = IF use THEN "LLM" ELSE llm
                /\ IF use
                   THEN \E b \in BoltConnectOutcomes, h \in HttpProbeOutcomes :
                          LET r == ConnectResult(b, h) IN
                          /\ driver' = r.driver
                          /\ use_http_api' = r.use_http_api
                          /\ http_base_url' = r.http_base_url
                          /\ connLog' = r.log
                          /\ boltAttempts' = boltAttempts + r.bolt
                          /\ httpAttempts' = httpAttempts + r.http
                          /\ cpc' = "ready"
                   ELSE UNCHANGED <<driver, use_http_api, http_base_url, cpc,
                                    connLog, boltAttempts, httpAttempts>>
    /\ UNCHANGED <<closed, lastCall, contacts, lastRetrieve>>
    /\ UNCHANGED <<bpc, buildRet, buildRaised, extractCalls, doc,
                   nNodes, nRels, entity_id_map, total_entities,
                   total_relations, lastStep, buildOk,
                   graphNodes, graphRelCount, nextId, batchVars>>

\* a call of route_query
RouteQuery ==
    /\ hpc = "ready"
    /\ lastRetrieve.op = "none"
    /\ \E q \in Queries :
        lastRetrieve' = [NoRetrieve EXCEPT !.op = "route_query", !.query = q,
                                           !.route = routeTable[q]]
    /\ UNCHANGED <<connVars, hpc, use_neo4j, graph_rag, buildVars>>

\* a call of retrieve
RetrieveCall ==
    /\ hpc = "ready"
    /\ lastRetrieve.op = "none"
    /\ \E q \in Queries :
        \E vo \in VectorChoices(q), gr \in ReplyChoices(q) :
          lastRetrieve' =
              RetrieveRecord("retrieve", q, vo,
                  Retrieve(use_neo4j, graph_rag, driver, use_http_api,
                           http_base_url, q, vo, gr))
    /\ UNCHANGED <<connVars, hpc, use_neo4j, graph_rag, buildVars>>

\* one turn of the chat handler (interface.py lines 147-170): retrieve, unpack
\* three values, generate the answer, log the metrics.
ChatTurn ==
    /\ hpc = "ready"
    /\ lastRetrieve.op = "none"
    /\ \E q \in Queries :
        \E vo \in VectorChoices(q), gr \in ReplyChoices(q) :
          lastRetrieve' =
              RetrieveRecord("chat", q, vo,
                  Retrieve(use_neo4j, graph_rag, driver, use_http_api,
                           http_base_url, q, vo, gr))
    /\ UNCHANGED <<connVars, hpc, use_neo4j, graph_rag, buildVars>>

\* the caller has consumed the result; the retriever awaits the next request
NextRequest ==
    /\ lastRetrieve.op # "none"
    /\ lastRetrieve' = NoRetrieve
    /\ UNCHANGED <<connVars, hpc, use_neo4j, graph_rag, buildVars>>

NextRetriever ==
    NewHybridRetriever \/ RouteQuery \/ RetrieveCall \/ ChatTurn \/ NextRequest

\* The retriever: constructed once, then queried.
SpecRetriever == Init /\ [][NextRetriever]_vars

----------------------------------------------------------------------------
(* Actions of the graph builder.  The list returned by the extraction     *)
(* service is read item by item: each node and relationship is drawn when *)
(* the loops of build_graph reach it.                                      *)

buildLocals ==
    <<doc, nNodes, nRels, entity_id_map, total_entities, total_relations>>

store == <<graphNodes, graphRelCount, nextId>>

\* A GraphRAG after __init__ (lines 161-166): its connector is in any state
\* _connect can leave, the llm is given or not. How the connector got there
\* is not recorded here.
InitBuild ==
    /\ \E b \in BoltConnectOutcomes, h \in HttpProbeOutcomes :
        LET r == ConnectResult(b, h) IN
        /\ driver = r.driver
        /\ use_http_api = r.use_http_api
        /\ http_base_url = r.http_base_url
        /\ boltAttempts = r.bolt
        /\ httpAttempts = r.http
    /\ cpc = "ready"
    /\ connLog = [bolt |-> "unrecorded", http |-> NoProbe]
    /\ closed = FALSE
    /\ lastCall = NoCall
    /\ contacts = 0
    /\ HRInit
    /\ llm \in {"None", "LLM"}
    /\ graph_documents = <<>>
    /\ BuildIdle

\* build_graph up to the loop (lines 174-194): the early returns, the import,
\* the extraction and the initialisation of the locals.
BuildStart ==
    /\ cpc = "ready"
    /\ bpc = "idle"
    /\ calls' = calls + 1
    /\ IF ~is_available(driver, use_http_api) \/ llm = "None"
       THEN /\ bpc' = "done"
            /\ buildRet' = ZeroCounts
            /\ buildRaised' = FALSE
            /\ extractCalls' = 0
       ELSE \E imp \in {"ok", "ImportError"}, ext \in {"ok", "exception"} :
            IF imp = "ImportError"
            THEN /\ bpc' = "done"
                 /\ buildRet' = ZeroCounts
                 /\ buildRaised' = FALSE
                 /\ extractCalls' = 0
            ELSE /\ extractCalls' = 1
                 /\ buildRet' = NoReturn
                 /\ buildRaised' = (ext = "exception")
                 /\ bpc' = IF ext = "exception" THEN "done" ELSE "docs"
    /\ doc' = 0
    /\ nNodes' = 0
    /\ nRels' = 0
    /\ entity_id_map' = EntityIndexAtStart(entity_id_map)
    /\ total_entities' = 0
    /\ total_relations' = 0
    /\ UNCHANGED <<connVars, hrVars, llm, lastStep, buildOk, store,
                   graph_documents, prev>>

\* the loop takes the next graph document (line 196)
StartDoc ==
    /\ bpc = "docs"
    /\ doc' = doc + 1
    /\ nNodes' = 0
    /\ nRels' = 0
    /\ bpc' = "nodes"
    /\ UNCHANGED <<connVars, hrVars, llm, store, buildRet, buildRaised,
                   extractCalls, entity_id_map, total_entities,
                   total_relations, lastStep, buildOk, batchVars>>

\* the next graph document is taken (line 196)
NextDoc ==
    /\ doc < MaxDocs
    /\ StartDoc

\* The body of the node loop (lines 199-210) for the node named entity_name,
\* when the store answers the CREATE statement with `kind`.
NodeStep(entity_name, kind) ==
    /\ nNodes' = nNodes + 1
    /\ IF EntityKey(entity_name) \notin DOMAIN entity_id_map
       THEN LET result == Ask(driver, use_http_api, http_base_url, kind,
                              <<[node_id |-> nextId]>>).ret
                node_id == CreateNodeReturn(result)
            IN
            /\ IF result # <<>>
               THEN /\ graphNodes' = graphNodes \cup
                         {[id |-> nextId, name |-> entity_name, doc |-> doc]}
                    /\ nextId' = nextId + 1
               ELSE UNCHANGED <<graphNodes, nextId>>
            /\ IF IsNotNone(node_id)
               THEN /\ entity_id_map' =
                         [k \in DOMAIN entity_id_map
                                  \cup {EntityKey(entity_name)} |->
                             IF k = EntityKey(entity_name) THEN node_id
                             ELSE entity_id_map[k]]
                    /\ total_entities' = total_entities + 1
                    /\ lastStep' = [NoStep EXCEPT !.kind = "node",
                                       !.name = entity_name,
                                       !.did = "created",
                                       !.from_id = node_id]
                    /\ UNCHANGED buildOk
               ELSE /\ lastStep' = [NoStep EXCEPT !.kind = "node",
                                       !.name = entity_name,
                                       !.did = "failed"]
                    /\ buildOk' = FALSE
                    /\ UNCHANGED <<entity_id_map, total_entities>>
       ELSE /\ lastStep' = [NoStep EXCEPT !.kind = "node",
                               !.name = entity_name, !.did = "reused",
                               !.from_id =
                                   entity_id_map[EntityKey(entity_name)]]
            /\ UNCHANGED <<entity_id_map, total_entities, buildOk,
                           graphNodes, nextId>>
    /\ UNCHANGED <<connVars, hrVars, llm, graphRelCount, bpc, buildRet,
                   buildRaised, extractCalls, doc, nRels, total_relations,
                   batchVars>>

\* one iteration of the node loop (lines 198-210)
BuildNode ==
    /\ bpc = "nodes"
    /\ nNodes < MaxNodes
    /\ \E entity_name \in Names, kind \in ReplyKinds :
        NodeStep(entity_name, kind)

\* the node loop of the document is over
EndNodes ==
    /\ bpc = "nodes"
    /\ bpc' = "rels"
    /\ UNCHANGED <<connVars, hrVars, llm, store, buildRet, buildRaised,
                   extractCalls, buildLocals, lastStep, buildOk, batchVars>>

\* The body of the relationship loop (lines 214-225) for the relationship
\* source -[type]-> target, when the store answers the statement with `kind`.
RelStep(source, target, type, kind) ==
    /\ nRels' = nRels + 1
    /\ LET from_name == RelKey(source)
           to_name == RelKey(target)
           rel_type == NormaliseRelType(type)
       IN
       IF BothResolved(from_name, to_name, entity_id_map)
       THEN LET result == Ask(driver, use_http_api, http_base_url, kind,
                              <<[rel_type |-> rel_type]>>).ret
            IN
            /\ lastStep' = [kind |-> "rel", name |-> source,
                            target |-> target,
                            did |-> IF result # <<>> THEN "stored"
                                    ELSE "empty",
                            from_id |-> entity_id_map[from_name],
                            to_id |-> entity_id_map[to_name],
                            rel_type |-> rel_type]
            /\ total_relations' = RelationsAfterCall(total_relations, result)
            /\ graphRelCount' =
                   graphRelCount + (IF result # <<>> THEN 1 ELSE 0)
            /\ buildOk' = (buildOk /\ result # <<>>)
       ELSE /\ lastStep' = [NoStep EXCEPT !.kind = "rel", !.name = source,
                               !.target = target, !.did = "dropped"]
            /\ UNCHANGED <<total_relations, graphRelCount, buildOk>>
    /\ UNCHANGED <<connVars, hrVars, llm, graphNodes, nextId, bpc, buildRet,
                   buildRaised, extractCalls, doc, nNodes, entity_id_map,
                   total_entities, batchVars>>

\* one iteration of the relationship loop (lines 213-225)
BuildRel ==
    /\ bpc = "rels"
    /\ nRels < MaxRels
    /\ \E source \in Names, target \in Names, type \in RelTypes,
          kind \in ReplyKinds :
        RelStep(source, target, type, kind)

\* the relationship loop of the document is over
EndRels ==
    /\ bpc = "rels"
    /\ bpc' = "docs"
    /\ UNCHANGED <<connVars, hrVars, llm, store, buildRet, buildRaised,
                   extractCalls, buildLocals, lastStep, buildOk, batchVars>>

\* the documents are exhausted: build_graph returns the counts (line 227)
BuildReturn ==
    /\ bpc = "docs"
    /\ bpc' = "done"
    /\ buildRet' = [entities |-> total_entities, relations |-> total_relations]
    /\ UNCHANGED <<connVars, hrVars, llm, store, buildRaised, extractCalls,
                   buildLocals, lastStep, buildOk, batchVars>>

NextBuild ==
    \/ BuildStart
    \/ NextDoc
    \/ BuildNode
    \/ EndNodes
    \/ BuildRel
    \/ EndRels
    \/ BuildReturn

\* The graph builder: build_graph is called on a constructed GraphRAG.
SpecBuild == InitBuild /\ [][NextBuild]_vars

----------------------------------------------------------------------------
(* build_graph called, possibly again, on a kept input.  The extraction   *)
(* service is taken to return the same graph documents for the same input, *)
(* so the input is identified with graph_documents.                        *)

\* The graph documents a kept input can be made of: the nodes and the
\* relationships of each, in the order the loops read them.
KeptNodeLists ==
    { <<>>,
      << <<"A", "b">> >>,
      << <<"c">> >>,
      << <<"A", "b">>, <<"a", "b">> >>,
      << <<"a", "b">>, <<"c">> >> }

KeptRelLists ==
    { <<>>,
      << [source |-> <<"A", "b">>, target |-> <<"c">>,
          type |-> <<"m", "a", "d", "e", " ", "b", "y">>] >> }

KeptDocs == [nodes : KeptNodeLists, relationships : KeptRelLists]

\* the longest list of relationships of a graph document
KeptRelLists_Longest ==
    CHOOSE l \in KeptRelLists : \A m \in KeptRelLists : Len(m) <= Len(l)

Batches == UNION { [1..n -> KeptDocs] : n \in 0..MaxBatchDocs }

\* A constructed GraphRAG and the input its caller keeps.
InitBatch ==
    /\ \E b \in BoltConnectOutcomes, h \in HttpProbeOutcomes :
        LET r == ConnectResult(b, h) IN
        /\ driver = r.driver
        /\ use_http_api = r.use_http_api
        /\ http_base_url = r.http_base_url
        /\ boltAttempts = r.bolt
        /\ httpAttempts = r.http
    /\ cpc = "ready"
    /\ connLog = [bolt |-> "unrecorded", http |-> NoProbe]
    /\ closed = FALSE
    /\ lastCall = NoCall
    /\ contacts = 0
    /\ HRInit
    /\ llm \in {"None", "LLM"}
    /\ graph_documents \in Batches
    /\ BuildIdle

\* the next graph document of the kept input is taken (line 196)
KeptNextDoc ==
    /\ doc < Len(graph_documents)
    /\ StartDoc

\* one iteration of the node loop (lines 198-210) over the kept input
KeptNode ==
    /\ bpc = "nodes"
    /\ nNodes < Len(graph_documents[doc].nodes)
    /\ \E kind \in ReplyKinds :
        NodeStep(graph_documents[doc].nodes[nNodes + 1], kind)

\* the nodes of the document are exhausted
KeptEndNodes ==
    /\ bpc = "nodes"
    /\ nNodes = Len(graph_documents[doc].nodes)
    /\ EndNodes

\* one iteration of the relationship loop (lines 213-225) over the kept input
KeptRel ==
    /\ bpc = "rels"
    /\ nRels < Len(graph_documents[doc].relationships)
    /\ \E kind \in ReplyKinds :
        LET rel == graph_documents[doc].relationships[nRels + 1] IN
        RelStep(rel.source, rel.target, rel.type, kind)

\* the relationships of the document are exhausted
KeptEndRels ==
    /\ bpc = "rels"
    /\ nRels = Len(graph_documents[doc].relationships)
    /\ EndRels

\* the kept input is exhausted: build_graph returns the counts (line 227)
KeptReturn ==
    /\ doc = Len(graph_documents)
    /\ BuildReturn

\* The caller calls build_graph again on the input it kept, after an
\* invocation in which every store call returned a row.
BuildAgain ==
    /\ bpc = "done"
    /\ buildOk
    /\ calls < MaxBuilds
    /\ bpc' = "idle"
    /\ prev' = [ret |-> buildRet, lo |-> prev.hi, hi |-> nextId,
                looped |-> (extractCalls = 1 /\ ~buildRaised)]
    /\ lastStep' = NoStep
    /\ UNCHANGED <<connVars, hrVars, llm, store, buildRet, buildRaised,
                   extractCalls, buildLocals, buildOk, graph_documents,
                   calls>>

NextBatch ==
    \/ BuildStart
    \/ KeptNextDoc
    \/ KeptNode
    \/ KeptEndNodes
    \/ KeptRel
    \/ KeptEndRels
    \/ KeptReturn
    \/ BuildAgain

\* The graph builder on a kept input.
SpecBatch == InitBatch /\ [][NextBatch]_vars

----------------------------------------------------------------------------
(* Claims about the connector, checked under Spec *)

ProbeAccepted(h) == h.kind = "response" /\ h.status \in {200, 202}

\* C1: initialization ends in exactly one of Primary, HttpFallback and
\* Unavailable: Primary iff the Bolt transport was constructed and verified;
\* otherwise the HTTP probe ran exactly once, and the connector is in
\* HttpFallback iff the probe answered 200 or 202 and in Unavailable for any
\* other status, exception or timeout. The probe never runs when Bolt succeeds.
C1_InitEndsInOneState ==
    cpc = "ready" =>
        /\ boltAttempts = 1
        /\ (State = "Primary") <=> (connLog.bolt = "ok")
        /\ httpAttempts = (IF connLog.bolt = "ok" THEN 0 ELSE 1)
        /\ (connLog.bolt = "ok") <=> (connLog.http = NoProbe)
        /\ (State = "HttpFallback")
              <=> (connLog.bolt # "ok" /\ ProbeAccepted(connLog.http))
        /\ (State = "Unavailable")
              <=> (connLog.bolt # "ok" /\ ~ProbeAccepted(connLog.http))

C1_Witness ==
    /\ cpc = "ready"
    /\ connLog.bolt = "verify_error"
    /\ connLog.http = [kind |-> "response", status |-> 202]
    /\ State = "HttpFallback"
    /\ httpAttempts = 1

\* C2: once initialized, is_connected() is true iff the transport state is
\* Primary or HttpFallback; with both transports unreachable at
\* initialization it is false.
C2_IsConnectedIffTransport ==
    cpc = "ready" =>
        /\ is_connected(driver, use_http_api)
              <=> (State \in {"Primary", "HttpFallback"})
        /\ (connLog.bolt # "ok" /\ connLog.http.kind \in {"exception", "timeout"})
              => ~is_connected(driver, use_http_api)

C2_Witness ==
    /\ cpc = "ready"
    /\ connLog.bolt = "driver_error"
    /\ connLog.http.kind = "timeout"
    /\ ~is_connected(driver, use_http_api)
    /\ lastCall.op # "none"

\* C3: after initialization no operation, succeeding or failing, changes the
\* transport state or attempts a connection again.
C3_StateIsTerminal ==
    [][cpc = "ready" =>
          /\ cpc' = "ready"
          /\ State' = State
          /\ boltAttempts' = boltAttempts
          /\ httpAttempts' = httpAttempts]_vars

C3_Witness ==
    /\ cpc = "ready"
    /\ State = "Primary"
    /\ lastCall.via = "bolt"
    /\ lastCall.out = "exception"
    /\ contacts >= 2

\* The transport's round trip of the last call failed.
LastCallFailed ==
    \/ lastCall.via = "bolt" /\ ~BoltOk(lastCall.out)
    \/ lastCall.via = "http" /\ ~HttpOk(lastCall.out)

\* C4: execute never raises; on any transport failure it returns an empty
\* sequence; in Unavailable it returns an empty sequence without contacting a
\* transport; a non-empty result comes only from a successful round trip.
C4_ExecuteNeverRaises ==
    lastCall.op # "none" =>
        /\ ~lastCall.raised
        /\ LastCallFailed => lastCall.result = <<>>
        /\ State = "Unavailable"
              => (lastCall.via = "none" /\ lastCall.result = <<>> /\ contacts = 0)
        /\ lastCall.result # <<>>
              => (lastCall.via # "none" /\ ~LastCallFailed)

C4_Witness ==
    /\ lastCall.op = "execute_query"
    /\ lastCall.via = "http"
    /\ lastCall.out = [kind |-> "response", status |-> 500, body |-> "rows"]
    /\ lastCall.result = <<>>
    /\ ~lastCall.raised

----------------------------------------------------------------------------
(* Claims about the retriever, checked under SpecRetriever *)

\* some vector-cue pattern is found in the lower-cased query
MatchesVectorCue(q) ==
    \E j \in DOMAIN QdrantPatterns : Search(QdrantPatterns[j], lower(q))

\* some graph-cue pattern is found in the lower-cased query
MatchesGraphCue(q) ==
    \E j \in DOMAIN Neo4jPatterns : Search(Neo4jPatterns[j], lower(q))

\* C5: route_query returns vector (qdrant) iff the lower-cased query matches a
\* vector cue, whether or not it also matches a graph cue; graph (neo4j) iff
\* it matches a graph cue and no vector cue; hybrid iff it matches neither.
C5_RouteByFirstMatchingSet ==
    lastRetrieve.op = "route_query" =>
        LET q == lastRetrieve.query
            r == lastRetrieve.route
        IN /\ r \in {"qdrant", "neo4j", "hybrid"}
           /\ (r = "qdrant") <=> MatchesVectorCue(q)
           /\ (r = "neo4j") <=> (~MatchesVectorCue(q) /\ MatchesGraphCue(q))
           /\ (r = "hybrid") <=> (~MatchesVectorCue(q) /\ ~MatchesGraphCue(q))

C5_Witness ==
    /\ lastRetrieve.op = "route_query"
    /\ MatchesVectorCue(lastRetrieve.query)
    /\ MatchesGraphCue(lastRetrieve.query)
    /\ lastRetrieve.query # lower(lastRetrieve.query)
    /\ lastRetrieve.route = "qdrant"

Retrieved == lastRetrieve.op \in {"retrieve", "chat"}

Returned == Retrieved /\ ~lastRetrieve.raised

\* C6: retrieve returns three values (chunks, route, timings), so that a
\* caller can unpack three values.
C6_RetrieveReturnsThreeParts ==
    Returned =>
        /\ Len(lastRetrieve.ret) = 3
        /\ lastRetrieve.chat # "ValueError"

\* the positions of the chunks of the given origin
Positions(chunks, origin) ==
    {i \in DOMAIN chunks : chunks[i].origin = origin}

\* C7: for a query routed hybrid, the returned chunks are the vector store's
\* chunks in the order it returned them, followed by at most one graph chunk.
C7_HybridVectorBeforeGraph ==
    (Returned /\ lastRetrieve.route = "hybrid") =>
        LET chunks == lastRetrieve.ret[1]
            docs == lastRetrieve.vo.docs
            V == Positions(chunks, "vector")
            G == Positions(chunks, "graph")
        IN /\ \A i \in V, j \in G : i < j
           /\ V = 1..Len(docs)
           /\ \A i \in V : chunks[i].id = docs[i].id
           /\ Cardinality(G) <= 1
           /\ G \subseteq {Len(chunks)}

C7_Witness ==
    /\ Returned
    /\ lastRetrieve.route = "hybrid"
    /\ Len(lastRetrieve.vo.docs) = 2
    /\ lastRetrieve.vo.docs[1].id = 2
    /\ Len(lastRetrieve.ret[1]) = 3
    /\ lastRetrieve.ret[1][3].origin = "graph"

\* C8: with the connector Unavailable, or graph mode off, retrieve for a
\* query routed graph returns no chunk, does not raise and calls no store.
C8_GraphRouteUnavailableIsEmpty ==
    (Retrieved /\ lastRetrieve.route = "neo4j"
        /\ (State = "Unavailable" \/ ~use_neo4j)) =>
        /\ ~lastRetrieve.raised
        /\ lastRetrieve.ret[1] = <<>>
        /\ lastRetrieve.vectorCalls = 0
        /\ lastRetrieve.graphCalls = 0

C8_Witness ==
    /\ Retrieved
    /\ lastRetrieve.route = "neo4j"
    /\ use_neo4j
    /\ cpc = "ready"
    /\ State = "Unavailable"
    /\ lastRetrieve.ret = <<<<>>, "neo4j">>

\* C9: retrieve does not raise when the vector store is unreachable during a
\* vector- or hybrid-routed query: it returns normally with no vector chunk.
C9_VectorFailureAbsorbed ==
    (Retrieved /\ lastRetrieve.route \in {"qdrant", "hybrid"}
        /\ lastRetrieve.vo.kind = "exception") =>
        /\ ~lastRetrieve.raised
        /\ Len(lastRetrieve.ret) >= 1
        /\ Positions(lastRetrieve.ret[1], "vector") = {}

----------------------------------------------------------------------------
(* Claims about the graph builder, checked under SpecBuild *)

\* the invocation at hand went through the loops and has returned
LoopedAndReturned == bpc = "done" /\ extractCalls = 1 /\ ~buildRaised

\* the nodes of the store created for the lower-cased name k
NodesNamed(k) == {n \in graphNodes : lower(n.name) = k}

\* C10: in an invocation whose store calls all succeed, at most one node is
\* created per lower-cased entity name, whatever the letter case and the
\* number of documents mentioning it, and every relationship created that
\* names the entity has that node's id as its endpoint.
C10_OneNodePerEntity ==
    buildOk =>
        /\ \A n1, n2 \in graphNodes :
              (lower(n1.name) = lower(n2.name) \/ n1.id = n2.id) => n1 = n2
        /\ \A k \in DOMAIN entity_id_map :
              \E n \in NodesNamed(k) : n.id = entity_id_map[k]
        /\ (lastStep.kind = "rel" /\ lastStep.did = "stored") =>
              /\ \A n \in NodesNamed(lower(lastStep.name)) :
                    n.id = lastStep.from_id
              /\ \A n \in NodesNamed(lower(lastStep.target)) :
                    n.id = lastStep.to_id
              /\ NodesNamed(lower(lastStep.name)) # {}
              /\ NodesNamed(lower(lastStep.target)) # {}

C10_Witness ==
    /\ buildOk
    /\ doc = 2
    /\ nNodes = 2
    /\ total_entities = 2
    /\ lastStep.kind = "rel"
    /\ lastStep.did = "stored"
    /\ lastStep.name = <<"a", "b">>
    /\ lastStep.target = <<"c">>
    /\ graphRelCount = 2
    /\ \E n \in graphNodes :
          n.name = <<"A", "b">> /\ n.doc = 1 /\ n.id = lastStep.from_id
    /\ \E n \in graphNodes :
          n.name = <<"c">> /\ n.doc = 2 /\ n.id = lastStep.to_id

\* C12: when the graph store is not connected or no extraction service is
\* configured, build returns zero entity and relation counts without
\* raising, without invoking the extraction service and without issuing any
\* write to the graph store (the loops are never entered, no create_node or
\* create_relationship call is made, the store is as it was).
C12_NoOpWhenUnavailable ==
    (~is_connected(driver, use_http_api) \/ llm = "None") =>
        /\ bpc \in {"idle", "done"}
        /\ bpc = "done" => (buildRet = ZeroCounts /\ ~buildRaised)
        /\ extractCalls = 0
        /\ lastStep = NoStep
        /\ entity_id_map = EmptyMap
        /\ graphNodes = {}
        /\ graphRelCount = 0
        /\ nextId = 0

\* build has returned on a connector whose two transports both failed,
\* although an extraction service is configured
C12_Witness ==
    /\ bpc = "done"
    /\ calls = 1
    /\ llm = "LLM"
    /\ ~is_connected(driver, use_http_api)
    /\ boltAttempts = 1
    /\ httpAttempts = 1
    /\ buildRet = ZeroCounts

\* C14: the counts returned by build are asymmetric. The entity count is
\* the number of create_node calls for which the store returned an id, and
\* always the size of entity_id_map; the relation count is the number of
\* create_relationship calls issued, a call counting also when the store
\* returned an empty result, so that it is never below, and can exceed, the
\* number of relationships stored.
C14_CountsAreAsymmetric ==
    /\ [](
        /\ total_entities = Cardinality(DOMAIN entity_id_map)
        /\ total_entities = Cardinality(graphNodes)
        /\ total_relations >= graphRelCount
        /\ LoopedAndReturned =>
              buildRet = [entities |-> Cardinality(DOMAIN entity_id_map),
                          relations |-> total_relations]
         )
    /\ [][
        /\ (bpc = "nodes" /\ nNodes' # nNodes) =>
              /\ lastStep'.did \in {"created", "failed", "reused"}
              /\ lastStep'.did = "created" =>
                    /\ total_entities' = total_entities + 1
                    /\ Cardinality(graphNodes') = Cardinality(graphNodes) + 1
              /\ lastStep'.did # "created" =>
                    /\ total_entities' = total_entities
                    /\ graphNodes' = graphNodes
              /\ total_relations' = total_relations
        /\ (bpc = "rels" /\ nRels' # nRels) =>
              /\ lastStep'.did \in {"stored", "empty", "dropped"}
              /\ lastStep'.did = "stored" =>
                    /\ total_relations' = total_relations + 1
                    /\ graphRelCount' = graphRelCount + 1
              /\ lastStep'.did = "empty" =>
                    /\ total_relations' = total_relations + 1
                    /\ graphRelCount' = graphRelCount
              /\ lastStep'.did = "dropped" =>
                    /\ total_relations' = total_relations
                    /\ graphRelCount' = graphRelCount
              /\ total_entities' = total_entities
         ]_vars

\* build has returned a relation count above the number of relationships
\* stored, next to an entity count equal to the number of nodes created
C14_Witness ==
    /\ LoopedAndReturned
    /\ buildRet = [entities |-> 2, relations |-> 2]
    /\ Cardinality(graphNodes) = 2
    /\ graphRelCount = 1
    /\ lastStep.kind = "rel"
    /\ lastStep.did = "empty"

----------------------------------------------------------------------------
(* Claims about the graph builder, checked under SpecBatch *)

\* the lower-cased names of the nodes of the first d documents of the input
MentionedBy(d) ==
    UNION { { lower(graph_documents[i].nodes[j]) :
                j \in 1..Len(graph_documents[i].nodes) } : i \in 1..d }

\* the relationships read so far in this invocation, as <<document, index>>
RelsRead ==
    { p \in (1..doc) \X (1..Len(KeptRelLists_Longest)) :
        /\ p[2] <= Len(graph_documents[p[1]].relationships)
        /\ (p[1] = doc => p[2] <= nRels) }

\* those of them whose two names had been mentioned when they were read
RelsResolvable ==
    { p \in RelsRead :
        LET rel == graph_documents[p[1]].relationships[p[2]] IN
        /\ lower(rel.source) \in MentionedBy(p[1])
        /\ lower(rel.target) \in MentionedBy(p[1]) }

\* the relationship the loop reads next
RelAtHand == graph_documents[doc].relationships[nRels + 1]

\* C11: during build, create_relationship is called for an extracted edge
\* only if, when the edge is processed, both its lower-cased names are
\* already in this invocation's entity_id_map; otherwise the edge is dropped
\* and never created later in the invocation, even if the missing entity is
\* first created by a later document. Documents are processed in order, and
\* within a document all nodes are processed before any relationship.
\* The count: the relationships for which create_relationship was called
\* are among those whose two names had been mentioned by the time they were
\* read, and are all of those when no store call failed. The step:
\* create_relationship is called only for the relationship being read.
C11_RelationshipNeedsBothEndpoints ==
    /\ [](
        /\ total_relations <= Cardinality(RelsResolvable)
        /\ buildOk => total_relations = Cardinality(RelsResolvable)
         )
    /\ [][
        /\ (total_relations' # total_relations \/ graphRelCount' # graphRelCount)
              => \/ bpc = "idle" /\ total_relations' = 0
                       /\ graphRelCount' = graphRelCount
                 \/ /\ bpc = "rels"
                    /\ nRels' = nRels + 1
                    /\ total_relations' = total_relations + 1
                    /\ graphRelCount' \in {graphRelCount, graphRelCount + 1}
                    /\ lower(RelAtHand.source) \in DOMAIN entity_id_map
                    /\ lower(RelAtHand.target) \in DOMAIN entity_id_map
                    /\ lastStep'.name = RelAtHand.source
                    /\ lastStep'.target = RelAtHand.target
        /\ (bpc = "rels" /\ nRels' # nRels)
              => /\ nRels' = nRels + 1
                 /\ ~(/\ lower(RelAtHand.source) \in DOMAIN entity_id_map
                      /\ lower(RelAtHand.target) \in DOMAIN entity_id_map)
                       => /\ lastStep'.did = "dropped"
                          /\ total_relations' = total_relations
                          /\ graphRelCount' = graphRelCount
        /\ doc' # doc => \/ bpc = "idle" /\ doc' = 0
                         \/ bpc = "docs" /\ doc' = doc + 1 /\ bpc' = "nodes"
        /\ nNodes' > nNodes => bpc = "nodes" /\ bpc' = "nodes" /\ doc' = doc
        /\ (bpc' = "rels" /\ bpc # "rels")
              => /\ bpc = "nodes"
                 /\ nNodes = Len(graph_documents[doc].nodes)
                 /\ nRels = 0
        /\ (bpc = "rels" /\ bpc' # "rels")
              => /\ bpc' = "docs"
                 /\ nRels = Len(graph_documents[doc].relationships)
         ]_vars

\* an edge of the first document was dropped for want of "c", the second
\* document created "c", and the invocation returned without the edge
C11_Witness ==
    /\ graph_documents =
          << [nodes |-> << <<"A", "b">> >>,
              relationships |->
                  << [source |-> <<"A", "b">>, target |-> <<"c">>,
                      type |-> <<"m", "a", "d", "e", " ", "b", "y">>] >>],
             [nodes |-> << <<"c">> >>, relationships |-> <<>>] >>
    /\ bpc = "done"
    /\ calls = 1
    /\ buildOk
    /\ DOMAIN entity_id_map = { <<"a", "b">>, <<"c">> }
    /\ buildRet = [entities |-> 2, relations |-> 0]
    /\ graphRelCount = 0

\* C13: entity deduplication is per invocation only. entity_id_map starts
\* empty at every build call, so it never holds an id given out before the
\* call began; and when build is called again on the same input with a
\* healthy store, the second call reports the same entity count as the
\* first and creates one more node for every entity name of the input: after
\* two calls the store holds two nodes per entity name.
C13_DedupPerInvocationOnly ==
    /\ bpc # "idle" =>
          \A k \in DOMAIN entity_id_map : entity_id_map[k] >= prev.hi
    /\ (LoopedAndReturned /\ buildOk /\ prev.looped) =>
          /\ buildRet.entities = prev.ret.entities
          /\ buildRet.entities =
                Cardinality(MentionedBy(Len(graph_documents)))
          /\ \A k \in MentionedBy(Len(graph_documents)) :
                /\ Cardinality({n \in NodesNamed(k) :
                        prev.lo <= n.id /\ n.id < prev.hi}) = 1
                /\ Cardinality({n \in NodesNamed(k) : n.id >= prev.hi}) = 1
                /\ entity_id_map[k] >= prev.hi
                /\ calls = 2 => Cardinality(NodesNamed(k)) = 2

\* build was called twice on a document naming "ab" and "c": each call
\* reported two entities and the store holds four nodes
C13_Witness ==
    /\ graph_documents =
          << [nodes |-> << <<"a", "b">>, <<"c">> >>,
              relationships |->
                  << [source |-> <<"A", "b">>, target |-> <<"c">>,
                      type |-> <<"m", "a", "d", "e", " ", "b", "y">>] >>] >>
    /\ calls = 2
    /\ LoopedAndReturned
    /\ buildOk
    /\ prev.looped
    /\ prev.ret = [entities |-> 2, relations |-> 1]
    /\ buildRet = [entities |-> 2, relations |-> 1]
    /\ Cardinality(graphNodes) = 4
    /\ Cardinality(NodesNamed(<<"c">>)) = 2
    /\ graphRelCount = 2

\* the node the loop reads next
NodeAtHand == graph_documents[doc].nodes[nNodes + 1]

\* the nodes the store created for the lower-cased name k in this invocation
NodesOfThisCall(k) == {n \in NodesNamed(k) : n.id >= prev.hi}

\* C15: when create_node fails (returns None) for an entity during build,
\* the entity's name is not recorded in entity_id_map: every later mention
\* of that name in the same invocation issues a new create_node attempt, and
\* every relationship that names the entity is dropped for as long as no
\* attempt has succeeded; a name enters entity_id_map only together with a
\* non-null store id, and its mapping is never overwritten afterwards.
C15_FailedNodeIsNotRecorded ==
    /\ [](
        bpc # "idle" =>
            /\ \A k \in DOMAIN entity_id_map :
                  /\ entity_id_map[k] # NoneId
                  /\ \E n \in NodesOfThisCall(k) : n.id = entity_id_map[k]
            /\ \A k \in MentionedBy(doc) :
                  NodesOfThisCall(k) = {} => k \notin DOMAIN entity_id_map
         )
    /\ [][
        /\ (bpc = "nodes" /\ nNodes' # nNodes) =>
              /\ lastStep'.name = NodeAtHand
              /\ lower(NodeAtHand) \notin DOMAIN entity_id_map =>
                    lastStep'.did \in {"created", "failed"}
              /\ lower(NodeAtHand) \in DOMAIN entity_id_map =>
                    lastStep'.did = "reused"
              /\ lastStep'.did = "failed" =>
                    /\ entity_id_map' = entity_id_map
                    /\ graphNodes' = graphNodes
              /\ lastStep'.did = "created" =>
                    /\ DOMAIN entity_id_map' =
                          DOMAIN entity_id_map \cup {lower(NodeAtHand)}
                    /\ entity_id_map'[lower(NodeAtHand)] = lastStep'.from_id
                    /\ lastStep'.from_id # NoneId
        /\ (/\ bpc = "rels"
            /\ nRels' # nRels
            /\ \E name \in {RelAtHand.source, RelAtHand.target} :
                  lower(name) \notin DOMAIN entity_id_map) =>
                  /\ lastStep'.did = "dropped"
                  /\ total_relations' = total_relations
                  /\ graphRelCount' = graphRelCount
        /\ bpc # "idle" =>
              \A k \in DOMAIN entity_id_map :
                  /\ k \in DOMAIN entity_id_map'
                  /\ entity_id_map'[k] = entity_id_map[k]
         ]_vars

\* create_node failed for "ab" in the first document, whose relationship
\* naming it was dropped; in the second document it failed again for "Ab",
\* succeeded for "ab", and the relationship was then created
C15_Witness ==
    /\ graph_documents =
          << [nodes |-> << <<"a", "b">>, <<"c">> >>,
              relationships |->
                  << [source |-> <<"A", "b">>, target |-> <<"c">>,
                      type |-> <<"m", "a", "d", "e", " ", "b", "y">>] >>],
             [nodes |-> << <<"A", "b">>, <<"a", "b">> >>,
              relationships |->
                  << [source |-> <<"A", "b">>, target |-> <<"c">>,
                      type |-> <<"m", "a", "d", "e", " ", "b", "y">>] >>] >>
    /\ calls = 1
    /\ bpc = "rels"
    /\ doc = 2
    /\ nRels = 1
    /\ ~buildOk
    /\ lastStep.kind = "rel"
    /\ lastStep.did = "stored"
    /\ total_relations = 1
    /\ total_entities = 2
    /\ \E n \in graphNodes :
          n.name = <<"a", "b">> /\ n.doc = 2 /\ n.id = lastStep.from_id
    /\ \E n \in graphNodes : n.name = <<"c">> /\ n.doc = 1

====
